---- MODULE Spec2Model ----
(***************************************************************************)
(* Photomini: the pointer-driven raster editing engine (PaintCanvas) and   *)
(* the host component (App) that owns the image slots.                     *)
(*                                                                         *)
(* Two specifications share this module.                                   *)
(*   Spec      the PaintCanvas component at pixel level: the live surface, *)
(*             the 2D context's compositing state, the snapshot and stroke *)
(*             buffers, the loaded checkpoint, the pointer handlers and    *)
(*             the asynchronous image loads of the surface.                *)
(*   HostSpec  the App component: the four image slots, the tab, the       *)
(*             outstanding AI-edit call, and the mounted canvas seen as    *)
(*             the image it shows and the checkpoint it has loaded.        *)
(*   BuildupSpec  one covered pixel under repeated lighten / darken        *)
(*             strokes along the same path.                                *)
(*   FaceSpec  one applyFaceEffects call, face by face, on the drawing     *)
(*             state of the surface's context.                             *)
(*   ServiceSpec  calls of editImageWithPhotominiAI, in each of the        *)
(*             versions of the service the repository holds.               *)
(*   DetectSpec   the geometric filters of detectFaces on one detector     *)
(*             result.                                                     *)
(*   BakeSpec     the filter controls of the Adjust tab and one            *)
(*             applyFiltersToImage call.                                   *)
(*   CensorSpec   what applyFaceEffects draws for one face under the       *)
(*             censor-eyes effect.                                         *)
(*   StampSpec    the stamps of a stroke of a stamping tool along a        *)
(*             line, for brush sizes up to MaxSize.                        *)
(*                                                                         *)
(* Raster conventions.  A surface is a function from pixel (i, j) to an    *)
(* RGBA pixel <<r, g, b, a>> with 8-bit straight-alpha channels.  Lengths  *)
(* are kept in half-pixel units so that pixel centres (2i+1, 2j+1) and     *)
(* pointer positions (2x, 2y) are integers; a radius of size/2 pixels is   *)
(* `size` half-pixels.  A shape covers a pixel when it contains the        *)
(* pixel's centre (no anti-aliasing).                                      *)
(***************************************************************************)
EXTENDS Integers, Sequences, FiniteSets, TLC

\* ------------------------------------------------------------------ bounds
CanvasW == 4
CanvasH == 2
MaxPointerEvents == 3
MaxConfigChanges == 1

\* ------------------------------------------------------------- arithmetic
Max(a, b) == IF a >= b THEN a ELSE b
Min(a, b) == IF a <= b THEN a ELSE b
Abs(a) == IF a >= 0 THEN a ELSE -a
\* n / d rounded to the nearest integer (half up), d > 0, n >= 0
RoundDiv(n, d) == (2 * n + d) \div (2 * d)
Clamp255(v) == Max(0, Min(255, v))
\* f itself; comparing a function makes TLC tabulate it once instead of
\* re-evaluating its defining expression at every application
Tabulated(f) == IF f = f THEN f ELSE f

\* ------------------------------------------------------------------ raster
Pix == (0 .. CanvasW - 1) \X (0 .. CanvasH - 1)
Transparent == <<0, 0, 0, 0>>
Opaque(r, g, b) == <<r, g, b, 255>>
Blank == [p \in Pix |-> Transparent]

\* CSS colours the code names
HexColor(c) ==
  CASE c = "#000000" -> Opaque(0, 0, 0)
    [] c = "#ffffff" -> Opaque(255, 255, 255)
    [] c = "#f59e0b" -> Opaque(245, 158, 11)
    [] c = "#3b82f6" -> Opaque(59, 130, 246)

\* ----------------------------------------------------- compositing (W3C)
Lum(c) == RoundDiv(30 * c[1] + 59 * c[2] + 11 * c[3], 100)
Min3(c) == Min(c[1], Min(c[2], c[3]))
Max3(c) == Max(c[1], Max(c[2], c[3]))
Sat(c) == Max3(c) - Min3(c)

\* signed n / d rounded to nearest, d > 0
SRoundDiv(n, d) == IF n >= 0 THEN RoundDiv(n, d) ELSE -RoundDiv(-n, d)

ClipColor(c) ==
  LET l == Lum(c)
      n == Min3(c)
      x == Max3(c)
      lo == IF n < 0
            THEN [k \in 1..3 |-> l + SRoundDiv((c[k] - l) * l, l - n)]
            ELSE c
      x2 == Max3(lo)
      l2 == l
  IN IF x2 > 255
     THEN [k \in 1..3 |-> l2 + SRoundDiv((lo[k] - l2) * (255 - l2), x2 - l2)]
     ELSE lo

SetLum(c, l) ==
  LET d == l - Lum(c)
  IN ClipColor([k \in 1..3 |-> c[k] + d])

SetSat(c, s) ==
  LET mx == Max3(c)
      mn == Min3(c)
  IN IF mx > mn
     THEN [k \in 1..3 |-> RoundDiv((c[k] - mn) * s, mx - mn)]
     ELSE [k \in 1..3 |-> 0]

\* B(Cb, Cs): the blend function of a globalCompositeOperation, on colours
Blend(op, cb, cs) ==
  CASE op = "difference" -> [k \in 1..3 |-> Abs(cb[k] - cs[k])]
    [] op = "screen" -> [k \in 1..3 |-> cb[k] + cs[k] - RoundDiv(cb[k] * cs[k], 255)]
    [] op = "multiply" -> [k \in 1..3 |-> RoundDiv(cb[k] * cs[k], 255)]
    [] op = "saturation" -> SetLum(SetSat(cb, Sat(cs)), Lum(cb))
    [] op = "color" -> SetLum(cs, Lum(cb))
    [] OTHER -> cs

\* One source pixel drawn onto one backdrop pixel under the context's
\* globalCompositeOperation `op` and globalAlpha `ga` (0..255).
Composite(op, ga, src, dst) ==
  LET as == RoundDiv(src[4] * ga, 255)
      ab == dst[4]
  IN IF op = "destination-out"
     THEN LET ao == RoundDiv(ab * (255 - as), 255)
          IN IF ao = 0 THEN Transparent ELSE <<dst[1], dst[2], dst[3], ao>>
     ELSE IF as = 0 THEN dst
     ELSE LET bl == Blend(op, dst, src)
              mix == [k \in 1..3 |-> RoundDiv((255 - ab) * src[k] + ab * bl[k], 255)]
              ao == as + ab - RoundDiv(as * ab, 255)
              ch(k) == Clamp255(RoundDiv(255 * as * mix[k] + (255 - as) * ab * dst[k],
                                         255 * ao))
          IN <<ch(1), ch(2), ch(3), ao>>

\* ---------------------------------------------------------------- geometry
\* pixel p's centre lies within `size` half-pixels of (cx, cy)
InDisk(p, cx, cy, size) ==
  (2 * p[1] + 1 - cx) * (2 * p[1] + 1 - cx) + (2 * p[2] + 1 - cy) * (2 * p[2] + 1 - cy)
    <= size * size

\* pixel p's centre lies within `size` half-pixels of the segment a-b
\* (a stroked line of width size with round caps and joins)
InRoundLine(p, ax, ay, bx, by, size) ==
  LET dx == bx - ax
      dy == by - ay
      vx == 2 * p[1] + 1 - ax
      vy == 2 * p[2] + 1 - ay
      t == vx * dx + vy * dy
      dd == dx * dx + dy * dy
  IN IF t <= 0 THEN InDisk(p, ax, ay, size)
     ELSE IF t >= dd THEN InDisk(p, bx, by, size)
     ELSE (vx * vx + vy * vy) * dd - t * t <= size * size * dd

\* the same line with butt caps: nothing beyond the end points, and nothing
\* at all for a zero-length segment
InButtLine(p, ax, ay, bx, by, size) ==
  LET dx == bx - ax
      dy == by - ay
      vx == 2 * p[1] + 1 - ax
      vy == 2 * p[2] + 1 - ay
      t == vx * dx + vy * dy
      dd == dx * dx + dy * dy
  IN /\ dd > 0
     /\ t >= 0
     /\ t <= dd
     /\ (vx * vx + vy * vy) * dd - t * t <= size * size * dd

\* ------------------------------------------------------------------- tools
Tools == {"brush", "blur", "pixelate", "eraser", "censor",
          "lighten", "darken", "tint", "desaturate", "invert"}

isComplexTool(t) == t \in {"invert", "desaturate", "tint", "lighten", "darken"}

\* the colour a blend-mode tool strokes into the stroke buffer
MaskStyle(t, color) ==
  CASE t = "darken" -> "#000000"
    [] t \in {"lighten", "desaturate", "invert"} -> "#ffffff"
    [] t = "tint" -> color

\* the compositing mode and the global alpha (0..255) a blend-mode tool
\* draws the stroke buffer with
BlendOp(t) ==
  CASE t = "invert" -> "difference"
    [] t = "desaturate" -> "saturation"
    [] t = "tint" -> "color"
    [] t = "lighten" -> "screen"
    [] t = "darken" -> "multiply"

\* a plausible slip: the stroke buffer drawn at full opacity for every tool
BlendAlphaFull(t) == 255

BlendAlpha(t) == IF t \in {"lighten", "darken"} THEN 102 ELSE 255

\* drawImage(src, 0, 0) of a same-sized buffer under (op, ga)
DrawImage(op, ga, src, dst) == [p \in Pix |-> Composite(op, ga, src[p], dst[p])]

applyBrush(ga, surf, s, x, y, prevX, prevY) ==
  [p \in Pix |->
     IF InRoundLine(p, prevX, prevY, x, y, s.size)
     THEN Composite("source-over", ga, HexColor(s.color), surf[p])
     ELSE surf[p]]

applyCensor(ga, surf, s, x, y, prevX, prevY) ==
  [p \in Pix |->
     IF InButtLine(p, prevX, prevY, x, y, s.size)
     THEN Composite("source-over", ga, HexColor("#000000"), surf[p])
     ELSE surf[p]]

\* restore: [loaded, px].  With a checkpoint the disk is drawn from it under
\* the context's current mode; without one the disk is filled destination-out.
applyEraser(op, ga, surf, restore, s, cx, cy) ==
  IF restore.loaded
  THEN [p \in Pix |->
          IF InDisk(p, cx, cy, s.size)
          THEN Composite(op, ga, restore.px[p], surf[p])
          ELSE surf[p]]
  ELSE [p \in Pix |->
          IF InDisk(p, cx, cy, s.size)
          THEN Composite("destination-out", ga, HexColor("#000000"), surf[p])
          ELSE surf[p]]

\* The blurred copy of the captured square around (cx, cy).  The Gaussian of
\* radius blurAmount is modelled as the mean over the (2k+1) x (2k+1) window,
\* k = blurAmount pixels, in premultiplied space; pixels outside the capture
\* or the surface count as transparent.
BlurredAt(surf, s, cx, cy, p) ==
  LET k == Max(1, s.intensity)
      half == s.size + 4 * k
      captured(q) == /\ q \in Pix
                     /\ Abs(2 * q[1] + 1 - cx) <= half
                     /\ Abs(2 * q[2] + 1 - cy) <= half
      win == {q \in (p[1] - k .. p[1] + k) \X (p[2] - k .. p[2] + k) : captured(q)}
      n == (2 * k + 1) * (2 * k + 1)
      RECURSIVE SumA(_), SumC(_, _)
      SumA(S) == IF S = {} THEN 0
                 ELSE LET q == CHOOSE q \in S : TRUE
                      IN surf[q][4] + SumA(S \ {q})
      SumC(S, c) == IF S = {} THEN 0
                    ELSE LET q == CHOOSE q \in S : TRUE
                         IN surf[q][4] * surf[q][c] + SumC(S \ {q}, c)
      sa == SumA(win)
  IN IF sa = 0 THEN Transparent
     ELSE <<RoundDiv(SumC(win, 1), sa), RoundDiv(SumC(win, 2), sa),
            RoundDiv(SumC(win, 3), sa), RoundDiv(sa, n)>>

applyBlur(op, ga, surf, s, cx, cy) ==
  [p \in Pix |->
     IF InDisk(p, cx, cy, s.size)
     THEN Composite(op, ga, BlurredAt(surf, s, cx, cy, p), surf[p])
     ELSE surf[p]]

\* Pixelate: grid cells of side pixelSize aligned to multiples of pixelSize;
\* a cell whose centre is within the brush radius is filled whole (fillRect,
\* no clip) with the opaque rgb read at its centre from the captured region.
applyPixelate(op, ga, surf, s, cx, cy) ==
  LET pixelSize == Max(2, s.intensity)
      startX == Max(0, (cx - s.size) \div 2)
      startY == Max(0, (cy - s.size) \div 2)
      endX == Min(CanvasW, (cx + s.size + 1) \div 2)
      endY == Min(CanvasH, (cy + s.size + 1) \div 2)
      w == endX - startX
      h == endY - startY
      gridStartX == (startX \div pixelSize) * pixelSize
      gridStartY == (startY \div pixelSize) * pixelSize
      \* the cell origin (px, py) of the loop that covers pixel p, if any
      cellX(p) == gridStartX + ((p[1] - gridStartX) \div pixelSize) * pixelSize
      cellY(p) == gridStartY + ((p[2] - gridStartY) \div pixelSize) * pixelSize
      inLoop(p) == /\ p[1] >= gridStartX
                   /\ p[2] >= gridStartY
                   /\ cellX(p) < endX
                   /\ cellY(p) < endY
      centerX2(p) == 2 * cellX(p) + pixelSize
      centerY2(p) == 2 * cellY(p) + pixelSize
      near(p) == (centerX2(p) - cx) * (centerX2(p) - cx)
                   + (centerY2(p) - cy) * (centerY2(p) - cy) <= s.size * s.size
      sampleX(p) == (centerX2(p) \div 2) - startX
      sampleY(p) == (centerY2(p) \div 2) - startY
      sampled(p) == /\ sampleX(p) >= 0
                    /\ sampleX(p) < w
                    /\ sampleY(p) >= 0
                    /\ sampleY(p) < h
      colour(p) == LET q == surf[<<sampleX(p) + startX, sampleY(p) + startY>>]
                   IN Opaque(q[1], q[2], q[3])
  IN IF w <= 0 \/ h <= 0 THEN surf
     ELSE [p \in Pix |->
             IF inLoop(p) /\ near(p) /\ sampled(p)
             THEN Composite(op, ga, colour(p), surf[p])
             ELSE surf[p]]

\* the interpolation step of the stamping tools, in half-pixels:
\* max(1, size / 4) pixels
StampStep(s) == Max(2, s.size \div 2)

\* for (i = 0; i <= dist; i += step) stamp at prev + direction * i.
\* The pointer moves along one axis, so cos and sin of the angle are 0, 1, -1.
RECURSIVE Stamps(_, _, _, _, _, _, _, _, _, _, _)
Stamps(t, op, ga, surf, restore, s, prevX, prevY, x, y, i) ==
  LET dist == Abs(x - prevX) + Abs(y - prevY)
      ux == IF x > prevX THEN 1 ELSE IF x < prevX THEN -1 ELSE 0
      uy == IF x # prevX THEN 0 ELSE IF y > prevY THEN 1 ELSE IF y < prevY THEN -1 ELSE 0
      cx == prevX + ux * i
      cy == prevY + uy * i
      next == CASE t = "eraser" -> applyEraser(op, ga, surf, restore, s, cx, cy)
                [] t = "blur" -> applyBlur(op, ga, surf, s, cx, cy)
                [] t = "pixelate" -> applyPixelate(op, ga, surf, s, cx, cy)
                [] OTHER -> surf
  IN IF i > dist THEN surf
     ELSE Stamps(t, op, ga, Tabulated(next), restore, s, prevX, prevY, x, y,
                 i + StampStep(s))

\* the centres the loop above stamps at
StampCentres(s, prevX, prevY, x, y) ==
  LET dist == Abs(x - prevX) + Abs(y - prevY)
      ux == IF x > prevX THEN 1 ELSE IF x < prevX THEN -1 ELSE 0
      uy == IF x # prevX THEN 0 ELSE IF y > prevY THEN 1 ELSE IF y < prevY THEN -1 ELSE 0
  IN {<<prevX + ux * i, prevY + uy * i>> :
        i \in {j \in 0 .. dist : j % StampStep(s) = 0}}

\* ------------------------------------------------------------------- state
VARIABLES
  canvas,          \* the live surface (canvasRef)
  ctxOp,           \* its context's globalCompositeOperation
  ctxAlpha,        \* its context's globalAlpha, 0..255
  snapshotCanvas,  \* snapshotCanvasRef
  strokeCanvas,    \* strokeCanvasRef
  restoreImg,      \* restoreImgRef: [loaded, px]
  restoreLoading,  \* the checkpoint image's load is outstanding
  isDrawing,
  lastPos,         \* [x, y] in half-pixels, or NoPos
  tool,            \* prop tool
  settings,        \* prop settings: [size, color, intensity]
  imageSrc,        \* prop imageSrc (the host's baseImage): [px, enc]
  loading,         \* surface images whose onload has not fired yet
  updates,         \* number of onUpdate calls so far
  \* history kept for the properties
  strokeStart,     \* the live surface at the pointer-down that left Idle
  strokeCover,     \* pixels within size/2 of the current stroke's samples
  samples,         \* samples applied in the current stroke
  nPointer,        \* pointer events handled so far
  nConfig,         \* tool and settings changes so far
  \* the host (App)
  currentImage,    \* an image, or NoImage for null
  baseImage,
  originalImage,
  checkPointImage,
  activeTab,       \* 'adjust' | 'manual' | 'ai'
  isProcessing,    \* an AI edit is outstanding
  detectedFaces,   \* whether the face list is non-empty
  isDetectingFaces,
  error,           \* the message of the error banner, or NoError for null
  filters,         \* DEFAULT_FILTERS, or filters a slider was moved in
  aiPrompt,
  dailyUsage,
  usageStored,     \* localStorage's photomini_usage_count
  aiOutstanding,   \* handleAiEdit calls between their first await and their finally
  \* the PaintCanvas the host has mounted, by images and dimensions
  mounted,
  canvasDims,      \* <<canvas.width, canvas.height>>
  restoreImgRef,   \* the decoded checkpoint image, or NoImage
  imageLoads,      \* surface images whose onload has not fired yet
  restoreLoads,    \* checkpoint images whose onload has not fired yet
  \* history kept for the properties
  lastAiResult,    \* the image the latest successful AI edit returned
  nImages,         \* images produced so far by commits and AI edits
  painted,         \* a sample was painted since the last commit
  \* one pixel under repeated strokes of one tonal tool
  bdTool,          \* 'lighten' | 'darken'
  bdStart,         \* the pixel before the first stroke
  bdPixel,         \* the pixel now
  bdStrokes,       \* strokes made over it so far
  \* one applyFaceEffects call
  fxFaces,         \* facesToProcess
  fxEffect,        \* 'censor-eyes' | 'blur-face' | 'pixelate-face'
  fxPc,            \* "idle", "faces" (inside forEach) or "done"
  fxIdx,           \* faces processed so far
  fxTransform,     \* the context's transform: the operations applied to it
  fxClip,          \* the context's clip: the paths it was clipped to
  fxStack,         \* the context's saved drawing states
  fxLog,           \* per face drawn: the drawing state it was drawn in
  fxUpdates,       \* onUpdate calls of this call
  \* the edit service
  svVersion,       \* which editImageWithPhotominiAI of the repository is built
  svKey,           \* the API key the build was given
  svPc,            \* position inside the call, or "idle"
  svCalls,         \* calls made so far
  svRequests,      \* network requests sent to the edit service so far
  svKeyless,       \* a request was sent without a key
  svResult,        \* how the latest call ended
  \* one call of a function that keeps no state
  arg,             \* what it is called with
  result,          \* what it returned, or NoResult before it has
  returned         \* whether it has returned

canvasVars == <<canvas, ctxOp, ctxAlpha, snapshotCanvas, strokeCanvas, restoreImg,
                restoreLoading, isDrawing, lastPos, tool, settings, imageSrc,
                loading, updates, strokeStart, strokeCover, samples, nPointer,
                nConfig>>

hostVars == <<currentImage, baseImage, originalImage, checkPointImage, activeTab,
              isProcessing, detectedFaces, mounted, canvasDims, restoreImgRef,
              imageLoads, restoreLoads, lastAiResult, nImages, painted,
              isDetectingFaces, error, filters, aiPrompt, dailyUsage, usageStored, aiOutstanding>>

\* the rest of App's state next to the image slots
appVars == <<isDetectingFaces, error, filters, aiPrompt, dailyUsage, usageStored, aiOutstanding>>

buildupVars == <<bdTool, bdStart, bdPixel, bdStrokes>>

faceVars == <<fxFaces, fxEffect, fxPc, fxIdx, fxTransform, fxClip, fxStack, fxLog,
              fxUpdates>>

serviceVars == <<svVersion, svKey, svPc, svCalls, svRequests, svKeyless, svResult>>

callVars == <<arg, result, returned>>

vars == <<canvasVars, hostVars, buildupVars, faceVars, serviceVars, callVars>>

\* what the handlers of the canvas, and of the host, have no access to
offCanvas == <<hostVars, buildupVars, faceVars, serviceVars, callVars>>
offHost == <<canvasVars, buildupVars, faceVars, serviceVars, callVars>>
offCall == <<canvasVars, hostVars, buildupVars, faceVars, serviceVars>>

NoPos == [x |-> -1, y |-> -1]

\* pointer positions getCoordinates can return, in half-pixels: the even
\* pixel abscissae along the row boundary y = 1
Positions == {[x |-> 4 * i, y |-> 2] : i \in 0 .. (CanvasW \div 2)}

Sizes == {2, 4}
Colors == {"#f59e0b"}
Intensities == {2}
SettingsSet == [size : Sizes, color : Colors, intensity : Intensities]

\* uploaded images: opaque colours, white, and a fully transparent pixel
Palette == <<Opaque(200, 100, 50), Opaque(255, 255, 255), Transparent, Opaque(10, 20, 30)>>
Picture(k) == [p \in Pix |-> Palette[((p[1] + 3 * p[2] + k) % Len(Palette)) + 1]]
Pictures == {Picture(0)}

\* an encoded image: its pixels and who encoded it (the uploaded file's own
\* bytes, or canvas.toDataURL('image/png')); two data URLs are the same
\* string exactly when both agree
FileImage(px) == [px |-> px, enc |-> "file"]
toDataURL(surf) == [px |-> surf, enc |-> "png"]

\* ------------------------------------------------------------------- draw
\* The body of draw() below its guards: one sample from lastPos to (x, y).
\* Yields the surface, the stroke buffer and the context state it leaves.
DrawSample(t, s, surf, snap, stroke, op, ga, restore, last, x, y) ==
  LET prevX == IF last # NoPos THEN last.x ELSE x
      prevY == IF last # NoPos THEN last.y ELSE y
  IN IF isComplexTool(t)
     THEN LET mask == [p \in Pix |->
                         IF InRoundLine(p, prevX, prevY, x, y, s.size)
                         THEN HexColor(MaskStyle(t, s.color))
                         ELSE stroke[p]]
              base == DrawImage("source-over", 255, snap, surf)
          IN [canvas |-> DrawImage(BlendOp(t), BlendAlpha(t), mask, base),
              stroke |-> mask,
              op |-> BlendOp(t),
              alpha |-> 255]
     ELSE [canvas |-> CASE t = "brush" -> applyBrush(ga, surf, s, x, y, prevX, prevY)
                        [] t = "censor" -> applyCensor(ga, surf, s, x, y, prevX, prevY)
                        [] OTHER -> Stamps(t, op, ga, surf, restore, s,
                                           prevX, prevY, x, y, 0),
           stroke |-> stroke,
           op |-> op,
           alpha |-> ga]

\* pixels within size/2 of the segment a sample covers
SampleCover(s, last, x, y) ==
  LET prevX == IF last # NoPos THEN last.x ELSE x
      prevY == IF last # NoPos THEN last.y ELSE y
  IN {p \in Pix : InRoundLine(p, prevX, prevY, x, y, s.size)}

\* draw() past its isDrawing guard: one sample to pos
drawBody(pos) ==
  /\ nPointer < MaxPointerEvents
  /\ nPointer' = nPointer + 1
  /\ LET r == DrawSample(tool, settings, canvas, snapshotCanvas, strokeCanvas,
                         ctxOp, ctxAlpha, restoreImg, lastPos, pos.x, pos.y)
     IN /\ canvas' = r.canvas
        /\ strokeCanvas' = r.stroke
        /\ ctxOp' = r.op
        /\ ctxAlpha' = r.alpha
  /\ lastPos' = pos
  /\ strokeCover' = strokeCover \cup SampleCover(settings, lastPos, pos.x, pos.y)
  /\ samples' = samples + 1
  /\ UNCHANGED offCanvas
  /\ UNCHANGED <<snapshotCanvas, restoreImg, restoreLoading, isDrawing, tool,
                 settings, imageSrc, loading, updates, strokeStart, nConfig>>

\* a plausible slip: draw() without its `if (!isDrawing) return`
drawUnguarded(pos) == drawBody(pos)

\* onMouseMove / onTouchMove
draw(pos) ==
  IF ~isDrawing
  THEN UNCHANGED vars
  ELSE drawBody(pos)

\* onMouseDown / onTouchStart.  setIsDrawing(true) takes effect at the next
\* render, so the draw(e) this handler ends with still reads the isDrawing of
\* the render the handler was created in.
startDrawing(pos) ==
  /\ nPointer < MaxPointerEvents
  /\ nPointer' = nPointer + 1
  /\ isDrawing' = TRUE
  /\ lastPos' = pos
  /\ LET seeded == isComplexTool(tool)
         snap == IF seeded THEN DrawImage("source-over", 255, canvas, Blank)
                 ELSE snapshotCanvas
         stroke == IF seeded THEN Blank ELSE strokeCanvas
     IN /\ snapshotCanvas' = snap
        /\ IF isDrawing
           THEN LET r == DrawSample(tool, settings, canvas, snap, stroke,
                                    ctxOp, ctxAlpha, restoreImg, pos, pos.x, pos.y)
                IN /\ canvas' = r.canvas
                   /\ strokeCanvas' = r.stroke
                   /\ ctxOp' = r.op
                   /\ ctxAlpha' = r.alpha
                   /\ strokeCover' = strokeCover \cup SampleCover(settings, pos, pos.x, pos.y)
                   /\ samples' = samples + 1
                   /\ UNCHANGED strokeStart
           ELSE /\ strokeCanvas' = stroke
                /\ strokeStart' = canvas
                /\ strokeCover' = {}
                /\ samples' = 0
                /\ UNCHANGED <<canvas, ctxOp, ctxAlpha>>
  /\ UNCHANGED offCanvas
  /\ UNCHANGED <<restoreImg, restoreLoading, tool, settings, imageSrc, loading, updates,
                 nConfig>>

\* onUpdate(dataUrl) as seen from the canvas: the host stores the URL in
\* baseImage, which comes back as the prop imageSrc, and the image effect
\* runs again only when that string changes
onUpdate(url) ==
  /\ imageSrc' = url
  /\ loading' = IF url # imageSrc THEN Append(loading, url) ELSE loading

\* a plausible slip: stopDrawing() without its `if (isDrawing)`, so that a
\* pointer-up or pointer-leave over the idle canvas commits too
stopDrawingUnguarded ==
  /\ isDrawing' = FALSE
  /\ lastPos' = NoPos
  /\ updates' = updates + 1
  /\ onUpdate(toDataURL(canvas))
  /\ UNCHANGED offCanvas
  /\ UNCHANGED <<canvas, ctxOp, ctxAlpha, snapshotCanvas, strokeCanvas, restoreImg,
                 restoreLoading, tool, settings, strokeStart, strokeCover, samples,
                 nPointer, nConfig>>

\* onMouseUp / onMouseLeave / onTouchEnd
stopDrawing ==
  /\ IF isDrawing
     THEN /\ isDrawing' = FALSE
          /\ lastPos' = NoPos
          /\ updates' = updates + 1
          /\ onUpdate(toDataURL(canvas))
     ELSE UNCHANGED <<isDrawing, lastPos, updates, imageSrc, loading>>
  /\ UNCHANGED offCanvas
  /\ UNCHANGED <<canvas, ctxOp, ctxAlpha, snapshotCanvas, strokeCanvas, restoreImg,
                 restoreLoading, tool, settings, strokeStart, strokeCover, samples,
                 nPointer, nConfig>>

\* the canvas element's wiring of the three events that end a stroke
onMouseUp == stopDrawing
onMouseLeave == stopDrawing
onTouchEnd == stopDrawing

\* img.onload of the image effect: assigning canvas.width clears the surface
\* and resets the context, then the image is drawn
imageOnLoad(k) ==
  /\ k \in 1 .. Len(loading)
  /\ canvas' = DrawImage("source-over", 255, loading[k].px, Blank)
  /\ ctxOp' = "source-over"
  /\ ctxAlpha' = 255
  /\ loading' = [i \in 1 .. Len(loading) - 1 |-> IF i < k THEN loading[i] ELSE loading[i + 1]]
  /\ UNCHANGED offCanvas
  /\ UNCHANGED <<snapshotCanvas, strokeCanvas, restoreImg, restoreLoading, isDrawing,
                 lastPos, tool, settings, imageSrc, updates, strokeStart, strokeCover,
                 samples, nPointer, nConfig>>

\* img.onload of the restore-image effect
restoreOnLoad ==
  /\ restoreLoading
  /\ restoreImg' = [loaded |-> TRUE, px |-> restoreImg.px]
  /\ restoreLoading' = FALSE
  /\ UNCHANGED offCanvas
  /\ UNCHANGED <<canvas, ctxOp, ctxAlpha, snapshotCanvas, strokeCanvas, isDrawing, lastPos,
                 tool, settings, imageSrc, loading, updates, strokeStart, strokeCover,
                 samples, nPointer, nConfig>>

\* the host's tool buttons and brush controls
setManualTool(t) ==
  /\ t # tool
  /\ nConfig < MaxConfigChanges
  /\ nConfig' = nConfig + 1
  /\ tool' = t
  /\ UNCHANGED offCanvas
  /\ UNCHANGED <<canvas, ctxOp, ctxAlpha, snapshotCanvas, strokeCanvas, restoreImg,
                 restoreLoading, isDrawing, lastPos, settings, imageSrc, loading, updates,
                 strokeStart, strokeCover, samples, nPointer>>

setBrushSettings(s) ==
  /\ s # settings
  /\ nConfig < MaxConfigChanges
  /\ nConfig' = nConfig + 1
  /\ settings' = s
  /\ UNCHANGED offCanvas
  /\ UNCHANGED <<canvas, ctxOp, ctxAlpha, snapshotCanvas, strokeCanvas, restoreImg,
                 restoreLoading, isDrawing, lastPos, tool, imageSrc, loading, updates,
                 strokeStart, strokeCover, samples, nPointer>>

\* ------------------------------------------------------------------- host
\* App keeps four image slots and mounts PaintCanvas while an image is loaded
\* and the Draw tab is open.  Here an image is known by where it came from
\* and by its pixel dimensions: [kind, n, dims].

MaxImages == 2

NoImage == [kind |-> "none", n |-> 0, dims |-> <<0, 0>>]
Upload == [kind |-> "file", n |-> 0, dims |-> <<CanvasW, CanvasH>>]

\* the size of a canvas element that was given no width and height
DefaultCanvasDims == <<300, 150>>

\* dimensions the AI service may answer with
AiDims == {<<CanvasW, CanvasH>>, <<CanvasH, CanvasW>>}

Tabs == {"adjust", "manual", "ai"}

\* restoreImageSrc={checkPointImage || baseImage || ''}
restoreImageSrc(chk, base) == IF chk # NoImage THEN chk ELSE base

\* One render of App after its state changed: PaintCanvas is mounted afresh,
\* kept (its two image effects run again for a prop that changed), or
\* unmounted.
Render ==
  IF ~(currentImage' # NoImage /\ activeTab' = "manual")
  THEN /\ mounted' = FALSE
       /\ canvasDims' = DefaultCanvasDims
       /\ restoreImgRef' = NoImage
       /\ imageLoads' = {}
       /\ restoreLoads' = {}
  ELSE LET src == baseImage'
           rsrc == restoreImageSrc(checkPointImage', baseImage')
       IN IF ~mounted
          THEN /\ mounted' = TRUE
               /\ canvasDims' = DefaultCanvasDims
               /\ restoreImgRef' = NoImage
               /\ imageLoads' = {src} \ {NoImage}
               /\ restoreLoads' = {rsrc} \ {NoImage}
          ELSE /\ mounted' = TRUE
               /\ canvasDims' = canvasDims
               /\ restoreImgRef' = restoreImgRef
               /\ imageLoads' = IF src # baseImage
                                THEN imageLoads \cup ({src} \ {NoImage})
                                ELSE imageLoads
               /\ restoreLoads' = IF rsrc # restoreImageSrc(checkPointImage, baseImage)
                                  THEN restoreLoads \cup ({rsrc} \ {NoImage})
                                  ELSE restoreLoads

DAILY_LIMIT == 250

NoError == "null"
LoadFailed == "Failed to load image"
NoFaces == "No faces detected in the image."
DetectFailed == "Failed to detect faces. Ensure scripts loaded."
LimitReached == "Daily limit of 250 requests reached. Please try again tomorrow."
AiFailed == "Failed to generate AI edit. Please try again."

\* what the AI service throws: an Error carrying the service's message, or a
\* value without one (applyFiltersToImage rejecting with an event)
ServiceMessage == "Failed to contact Photomini AI"
NoMessage == ""
AiErrors == {ServiceMessage, NoMessage}

DEFAULT_FILTERS == "DEFAULT_FILTERS"
FilterStates == {DEFAULT_FILTERS, "edited"}

Prompts == {"", "make it brighter"}

\* a plausible slip: an upload that sets the shown image and forgets the
\* slots Reset and the eraser read
handleFileUploadPartial(img) ==
  /\ currentImage = NoImage
  /\ baseImage' = img
  /\ currentImage' = img
  /\ filters' = DEFAULT_FILTERS
  /\ error' = NoError
  /\ detectedFaces' = FALSE
  /\ UNCHANGED <<originalImage, checkPointImage, activeTab, isProcessing, lastAiResult,
                 nImages, painted>>
  /\ UNCHANGED <<isDetectingFaces, aiPrompt, dailyUsage, usageStored, aiOutstanding>>
  /\ Render
  /\ UNCHANGED offHost

\* the file input exists only while no image is loaded; the file is read
handleFileUpload(img) ==
  /\ currentImage = NoImage
  /\ baseImage' = img
  /\ originalImage' = img
  /\ checkPointImage' = img
  /\ currentImage' = img
  /\ filters' = DEFAULT_FILTERS
  /\ error' = NoError
  /\ detectedFaces' = FALSE
  /\ UNCHANGED <<activeTab, isProcessing, lastAiResult, nImages, painted>>
  /\ UNCHANGED <<isDetectingFaces, aiPrompt, dailyUsage, usageStored, aiOutstanding>>
  /\ Render
  /\ UNCHANGED offHost

\* the file is chosen and reader.onerror fires: readFileAsBase64 rejects
handleFileUploadFailed ==
  /\ currentImage = NoImage
  /\ error' = LoadFailed
  /\ UNCHANGED <<currentImage, baseImage, originalImage, checkPointImage, activeTab,
                 isProcessing, detectedFaces, lastAiResult, nImages, painted>>
  /\ UNCHANGED <<isDetectingFaces, filters, aiPrompt, dailyUsage, usageStored, aiOutstanding>>
  /\ Render
  /\ UNCHANGED offHost

\* the Reset and Close buttons exist only while an image is loaded
handleReset ==
  /\ currentImage # NoImage
  /\ IF originalImage # NoImage
     THEN /\ baseImage' = originalImage
          /\ checkPointImage' = originalImage
          /\ currentImage' = originalImage
          /\ filters' = DEFAULT_FILTERS
          /\ detectedFaces' = FALSE
     ELSE UNCHANGED <<baseImage, checkPointImage, currentImage, filters, detectedFaces>>
  /\ UNCHANGED <<originalImage, activeTab, isProcessing, lastAiResult, nImages, painted>>
  /\ UNCHANGED <<isDetectingFaces, error, aiPrompt, dailyUsage, usageStored, aiOutstanding>>
  /\ Render
  /\ UNCHANGED offHost

handleClear ==
  /\ currentImage # NoImage
  /\ baseImage' = NoImage
  /\ originalImage' = NoImage
  /\ checkPointImage' = NoImage
  /\ currentImage' = NoImage
  /\ filters' = DEFAULT_FILTERS
  /\ aiPrompt' = ""
  /\ detectedFaces' = FALSE
  /\ UNCHANGED <<activeTab, isProcessing, lastAiResult, nImages, painted>>
  /\ UNCHANGED <<isDetectingFaces, error, dailyUsage, usageStored, aiOutstanding>>
  /\ Render
  /\ UNCHANGED offHost

\* a plausible slip: the committed surface is taken as the new checkpoint too
handleManualUpdateCheckpointing(newImageBase64) ==
  /\ baseImage' = newImageBase64
  /\ checkPointImage' = newImageBase64

handleManualUpdate(newImageBase64) ==
  /\ baseImage' = newImageBase64
  /\ UNCHANGED checkPointImage

\* canvas.toDataURL('image/png') of the mounted canvas
getDataUrl == [kind |-> "edit", n |-> nImages + 1, dims |-> canvasDims]

\* a stroke ends on the mounted canvas: stopDrawing calls onUpdate.  The
\* processing overlay covers the canvas while an AI edit is outstanding.
strokeCommitted ==
  /\ mounted /\ ~isProcessing
  /\ nImages < MaxImages
  /\ nImages' = nImages + 1
  /\ handleManualUpdate(getDataUrl)
  /\ painted' = FALSE
  /\ UNCHANGED <<currentImage, originalImage, activeTab, isProcessing, detectedFaces,
                 lastAiResult>>
  /\ UNCHANGED appVars
  /\ Render
  /\ UNCHANGED offHost

\* a pointer-down or pointer-move paints a sample on the mounted canvas
strokeSampled ==
  /\ mounted /\ ~isProcessing
  /\ ~painted
  /\ painted' = TRUE
  /\ UNCHANGED <<currentImage, baseImage, originalImage, checkPointImage, activeTab,
                 isProcessing, detectedFaces, lastAiResult, nImages>>
  /\ UNCHANGED appVars
  /\ Render
  /\ UNCHANGED offHost

\* the Detect Faces button of the Draw tab, shown while the list is empty
\* and disabled while a detection is outstanding: handleDetectFaces up to
\* its await
handleDetectFaces ==
  /\ currentImage # NoImage
  /\ activeTab = "manual"
  /\ ~detectedFaces
  /\ ~isDetectingFaces
  /\ IF baseImage = NoImage
     THEN UNCHANGED <<isDetectingFaces, detectedFaces, error>>
     ELSE /\ isDetectingFaces' = TRUE
          /\ detectedFaces' = FALSE
          /\ error' = NoError
  /\ UNCHANGED <<currentImage, baseImage, originalImage, checkPointImage, activeTab,
                 isProcessing, lastAiResult, nImages, painted>>
  /\ UNCHANGED <<filters, aiPrompt, dailyUsage, usageStored, aiOutstanding>>
  /\ Render
  /\ UNCHANGED offHost

\* what can happen inside detectFaces
DetectorOutcomes == {"faces", "none", "throws", "unavailable", "imageError"}

\* detectFaces: how its promise settles.  initializeFaceDetector rejecting
\* and img.onerror reject it; detector.detect throwing is caught inside
\* img.onload, which resolves the empty list.
detectFaces(outcome) ==
  CASE outcome = "unavailable" -> "reject"
    [] outcome = "imageError" -> "reject"
    [] outcome = "throws" -> "empty"
    [] outcome = "none" -> "empty"
    [] outcome = "faces" -> "faces"

\* handleDetectFaces after its await
detectSettled(outcome) ==
  /\ isDetectingFaces
  /\ LET faces == detectFaces(outcome)
     IN CASE faces = "reject" -> /\ error' = DetectFailed
                                 /\ UNCHANGED detectedFaces
          [] faces = "empty" -> /\ error' = NoFaces
                                /\ UNCHANGED detectedFaces
          [] faces = "faces" -> /\ detectedFaces' = TRUE
                                /\ UNCHANGED error
  /\ isDetectingFaces' = FALSE
  /\ UNCHANGED <<currentImage, baseImage, originalImage, checkPointImage, activeTab,
                 isProcessing, lastAiResult, nImages, painted>>
  /\ UNCHANGED <<filters, aiPrompt, dailyUsage, usageStored, aiOutstanding>>
  /\ Render
  /\ UNCHANGED offHost

\* the Cancel button next to the face count
cancelFaces ==
  /\ currentImage # NoImage
  /\ activeTab = "manual"
  /\ detectedFaces
  /\ detectedFaces' = FALSE
  /\ UNCHANGED <<currentImage, baseImage, originalImage, checkPointImage, activeTab,
                 isProcessing, lastAiResult, nImages, painted>>
  /\ UNCHANGED appVars
  /\ Render
  /\ UNCHANGED offHost

\* handleApplyFaceEffect on the Draw tab: with faces the whole batch is
\* drawn, then applyFaceEffects calls onUpdate once
handleApplyFaceEffect ==
  /\ currentImage # NoImage
  /\ activeTab = "manual"
  /\ IF ~detectedFaces
     THEN UNCHANGED <<baseImage, checkPointImage, nImages, painted, detectedFaces>>
     ELSE /\ nImages < MaxImages
          /\ IF mounted
             THEN /\ handleManualUpdate(getDataUrl)
                  /\ nImages' = nImages + 1
                  /\ painted' = FALSE
             ELSE UNCHANGED <<baseImage, checkPointImage, nImages, painted>>
          /\ detectedFaces' = FALSE
  /\ UNCHANGED <<currentImage, originalImage, activeTab, isProcessing, lastAiResult>>
  /\ UNCHANGED appVars
  /\ Render
  /\ UNCHANGED offHost

\* a plausible slip: the limit tested with > instead of >=
limitReachedLate == dailyUsage > DAILY_LIMIT

\* if (dailyUsage >= DAILY_LIMIT)
limitReached == dailyUsage >= DAILY_LIMIT

\* incrementUsage: the count of the render is raised and written to
\* localStorage
incrementUsage ==
  LET newUsage == dailyUsage + 1
  IN /\ dailyUsage' = newUsage
     /\ usageStored' = newUsage

\* handleAiEdit up to its first await
aiEditStarted ==
  /\ IF baseImage = NoImage \/ aiPrompt = ""
     THEN UNCHANGED <<error, isProcessing, aiOutstanding>>
     ELSE IF limitReached
          THEN /\ error' = LimitReached
               /\ UNCHANGED <<isProcessing, aiOutstanding>>
          ELSE /\ isProcessing' = TRUE
               /\ error' = NoError
               /\ aiOutstanding' = aiOutstanding + 1
  /\ UNCHANGED <<currentImage, baseImage, originalImage, checkPointImage, activeTab,
                 detectedFaces, lastAiResult, nImages, painted>>
  /\ UNCHANGED <<isDetectingFaces, filters, aiPrompt, dailyUsage, usageStored>>
  /\ Render
  /\ UNCHANGED offHost

\* a plausible slip: a Generate button that stays enabled while an edit is
\* outstanding
handleAiEditWhileBusy ==
  /\ currentImage # NoImage
  /\ activeTab = "ai"
  /\ aiPrompt # ""
  /\ aiOutstanding < 2
  /\ aiEditStarted

\* the Generate button of the AI tab, disabled while the prompt is empty or
\* an edit is outstanding
handleAiEdit ==
  /\ currentImage # NoImage
  /\ activeTab = "ai"
  /\ aiPrompt # "" /\ ~isProcessing
  /\ aiEditStarted

\* handleAiEdit after its awaits: the service answered with an image
aiEditResolved(dims) ==
  /\ aiOutstanding > 0
  /\ nImages < MaxImages
  /\ nImages' = nImages + 1
  /\ LET newImage == [kind |-> "ai", n |-> nImages + 1, dims |-> dims]
     IN /\ baseImage' = newImage
        /\ checkPointImage' = newImage
        /\ currentImage' = newImage
        /\ lastAiResult' = newImage
  /\ filters' = DEFAULT_FILTERS
  /\ aiPrompt' = ""
  /\ detectedFaces' = FALSE
  /\ incrementUsage
  /\ isProcessing' = FALSE
  /\ aiOutstanding' = aiOutstanding - 1
  /\ UNCHANGED <<originalImage, activeTab, painted, isDetectingFaces, error>>
  /\ Render
  /\ UNCHANGED offHost

\* a plausible slip: a catch block that also abandons the prompt
aiEditRejectedClearing(err) ==
  /\ aiOutstanding > 0
  /\ error' = IF err # NoMessage THEN err ELSE AiFailed
  /\ aiPrompt' = ""
  /\ isProcessing' = FALSE
  /\ aiOutstanding' = aiOutstanding - 1
  /\ UNCHANGED <<currentImage, baseImage, originalImage, checkPointImage, activeTab,
                 detectedFaces, lastAiResult, nImages, painted>>
  /\ UNCHANGED <<isDetectingFaces, filters, dailyUsage, usageStored>>
  /\ Render
  /\ UNCHANGED offHost

\* handleAiEdit after its awaits: one of them threw err
aiEditRejected(err) ==
  /\ aiOutstanding > 0
  /\ error' = IF err # NoMessage THEN err ELSE AiFailed
  /\ isProcessing' = FALSE
  /\ aiOutstanding' = aiOutstanding - 1
  /\ UNCHANGED <<currentImage, baseImage, originalImage, checkPointImage, activeTab,
                 detectedFaces, lastAiResult, nImages, painted>>
  /\ UNCHANGED <<isDetectingFaces, filters, aiPrompt, dailyUsage, usageStored>>
  /\ Render
  /\ UNCHANGED offHost

setActiveTab(t) ==
  /\ t # activeTab
  /\ activeTab' = t
  /\ UNCHANGED <<currentImage, baseImage, originalImage, checkPointImage, isProcessing,
                 detectedFaces, lastAiResult, nImages, painted>>
  /\ UNCHANGED appVars
  /\ Render
  /\ UNCHANGED offHost

\* a slider or the rotate button of the Adjust tab
setFilters(f) ==
  /\ currentImage # NoImage
  /\ activeTab = "adjust"
  /\ f # filters
  /\ filters' = f
  /\ UNCHANGED <<currentImage, baseImage, originalImage, checkPointImage, activeTab,
                 isProcessing, detectedFaces, lastAiResult, nImages, painted>>
  /\ UNCHANGED <<isDetectingFaces, error, aiPrompt, dailyUsage, usageStored, aiOutstanding>>
  /\ Render
  /\ UNCHANGED offHost

\* the prompt textarea of the AI tab
setAiPrompt(p) ==
  /\ currentImage # NoImage
  /\ activeTab = "ai"
  /\ p # aiPrompt
  /\ aiPrompt' = p
  /\ UNCHANGED <<currentImage, baseImage, originalImage, checkPointImage, activeTab,
                 isProcessing, detectedFaces, lastAiResult, nImages, painted>>
  /\ UNCHANGED <<isDetectingFaces, error, filters, dailyUsage, usageStored, aiOutstanding>>
  /\ Render
  /\ UNCHANGED offHost

\* the close button of the error banner
dismissError ==
  /\ error # NoError
  /\ error' = NoError
  /\ UNCHANGED <<currentImage, baseImage, originalImage, checkPointImage, activeTab,
                 isProcessing, detectedFaces, lastAiResult, nImages, painted>>
  /\ UNCHANGED <<isDetectingFaces, filters, aiPrompt, dailyUsage, usageStored, aiOutstanding>>
  /\ Render
  /\ UNCHANGED offHost

\* img.onload of the mounted canvas's image effect
surfaceLoaded(img) ==
  /\ mounted
  /\ img \in imageLoads
  /\ canvasDims' = img.dims
  /\ imageLoads' = imageLoads \ {img}
  /\ UNCHANGED <<currentImage, baseImage, originalImage, checkPointImage, activeTab,
                 isProcessing, detectedFaces, mounted, restoreImgRef, restoreLoads,
                 lastAiResult, nImages, painted>>
  /\ UNCHANGED appVars
  /\ UNCHANGED offHost

\* img.onload of the mounted canvas's restore-image effect
checkpointLoaded(img) ==
  /\ mounted
  /\ img \in restoreLoads
  /\ restoreImgRef' = img
  /\ restoreLoads' = restoreLoads \ {img}
  /\ UNCHANGED <<currentImage, baseImage, originalImage, checkPointImage, activeTab,
                 isProcessing, detectedFaces, mounted, canvasDims, imageLoads,
                 lastAiResult, nImages, painted>>
  /\ UNCHANGED appVars
  /\ UNCHANGED offHost

\* ---------------------------------------------------------------- buildup
\* One pixel that every stroke covers.  A stroke is a pointer-down, which
\* seeds the snapshot with the surface, one sample, which redraws the
\* snapshot and composites the mask over it, and a pointer-up, after which
\* the surface is loaded again from the lossless PNG it was committed as.

MaxStrokes == 4

TonalTools == {"lighten", "darken"}

\* every value of an opaque channel, and pixels that are not opaque
BuildupPixels ==
  {<<v, 255 - v, (3 * v) % 256, 255>> : v \in 0 .. 255}
    \cup {Transparent, <<200, 100, 50, 128>>, <<0, 255, 7, 1>>, <<255, 0, 128, 254>>}

\* a plausible slip: the branches of the two tonal tools exchanged
StrokePixelSwapped(t, px) ==
  LET other == IF t = "lighten" THEN "darken" ELSE "lighten"
      base == Composite("source-over", 255, px, px)
  IN Composite(BlendOp(other), BlendAlpha(other), HexColor(MaskStyle(other, "#f59e0b")),
               base)

\* the pixel after one stroke of tool t that covers it
StrokePixel(t, px) ==
  LET base == Composite("source-over", 255, px, px)
  IN Composite(BlendOp(t), BlendAlpha(t), HexColor(MaskStyle(t, "#f59e0b")), base)

restroke ==
  /\ bdStrokes < MaxStrokes
  /\ bdStrokes' = bdStrokes + 1
  /\ bdPixel' = StrokePixel(bdTool, bdPixel)
  /\ UNCHANGED <<bdTool, bdStart>>
  /\ UNCHANGED <<canvasVars, hostVars, faceVars, serviceVars, callVars>>

\* no pixel is being re-stroked
BuildupIdle ==
  /\ bdTool = "lighten"
  /\ bdStart = Transparent
  /\ bdPixel = Transparent
  /\ bdStrokes = 0

\* ----------------------------------------------------------- face effects
\* applyFaceEffects on the drawing state of the surface's context.  A
\* transform is the sequence of operations applied to the identity, a clip
\* the set of paths the context was clipped to; save pushes both, restore
\* pops them.

MaxFaces == 2

\* a detected face: its bounding-box centre, its eye landmarks if any and the
\* eye-line angle getFaceGeometry derives from them (0 without landmarks)
Faces ==
  {[id |-> 1, centerX |-> 40, centerY |-> 40, landmarks |-> 0, angle |-> 0],
   [id |-> 2, centerX |-> 90, centerY |-> 40, landmarks |-> 2, angle |-> 0],
   [id |-> 3, centerX |-> 60, centerY |-> 90, landmarks |-> 2, angle |-> 30]}

FaceEffects == {"censor-eyes", "blur-face", "pixelate-face"}

FaceLists == UNION {[1 .. n -> Faces] : n \in 0 .. MaxFaces}

Identity == <<>>
NoClip == {}

\* ctx.save() and ctx.restore() on [transform, clip, stack]
CtxSave(c) ==
  [c EXCEPT !.stack = Append(c.stack, [transform |-> c.transform, clip |-> c.clip])]

CtxRestore(c) ==
  IF c.stack = <<>>
  THEN c
  ELSE LET top == c.stack[Len(c.stack)]
       IN [transform |-> top.transform,
           clip |-> top.clip,
           stack |-> SubSeq(c.stack, 1, Len(c.stack) - 1)]

\* the body of the forEach callback between its save and its restore:
\* translate to the face centre, rotate to the eye line, and clip to the
\* ellipse unless the black eye bar is drawn
FaceFrame(c, face, effect) ==
  LET bar == effect = "censor-eyes" /\ face.landmarks >= 2
      moved == c.transform \o <<<<"translate", face.centerX, face.centerY>>,
                                 <<"rotate", face.angle>>>>
  IN [c EXCEPT !.transform = moved,
               !.clip = IF bar THEN c.clip ELSE c.clip \cup {<<"ellipse", face.id>>}]

fxCtx == [transform |-> fxTransform, clip |-> fxClip, stack |-> fxStack]

\* lines 65-69: the outer save
fxBegin ==
  /\ fxPc = "idle"
  /\ fxPc' = "faces"
  /\ LET c == CtxSave(fxCtx)
     IN /\ fxTransform' = c.transform
        /\ fxClip' = c.clip
        /\ fxStack' = c.stack
  /\ UNCHANGED <<fxFaces, fxEffect, fxIdx, fxLog, fxUpdates>>
  /\ UNCHANGED <<canvasVars, hostVars, buildupVars, serviceVars, callVars>>

\* a plausible slip: a branch of the callback that returns before ctx.restore()
fxFaceUnrestored ==
  /\ fxPc = "faces"
  /\ fxIdx < Len(fxFaces)
  /\ fxIdx' = fxIdx + 1
  /\ LET face == fxFaces[fxIdx + 1]
         drawn == FaceFrame(CtxSave(fxCtx), face, fxEffect)
     IN /\ fxLog' = Append(fxLog, [face |-> face, transform |-> drawn.transform,
                                   clip |-> drawn.clip])
        /\ fxTransform' = drawn.transform
        /\ fxClip' = drawn.clip
        /\ fxStack' = drawn.stack
  /\ UNCHANGED <<fxFaces, fxEffect, fxPc, fxUpdates>>
  /\ UNCHANGED <<canvasVars, hostVars, buildupVars, serviceVars, callVars>>

\* lines 71-161: one run of the forEach callback
fxFace ==
  /\ fxPc = "faces"
  /\ fxIdx < Len(fxFaces)
  /\ fxIdx' = fxIdx + 1
  /\ LET face == fxFaces[fxIdx + 1]
         drawn == FaceFrame(CtxSave(fxCtx), face, fxEffect)
         after == CtxRestore(drawn)
     IN /\ fxLog' = Append(fxLog, [face |-> face, transform |-> drawn.transform,
                                   clip |-> drawn.clip])
        /\ fxTransform' = after.transform
        /\ fxClip' = after.clip
        /\ fxStack' = after.stack
  /\ UNCHANGED <<fxFaces, fxEffect, fxPc, fxUpdates>>
  /\ UNCHANGED <<canvasVars, hostVars, buildupVars, serviceVars, callVars>>

\* lines 163-164: the outer restore and the one onUpdate
fxEnd ==
  /\ fxPc = "faces"
  /\ fxIdx = Len(fxFaces)
  /\ fxPc' = "done"
  /\ LET c == CtxRestore(fxCtx)
     IN /\ fxTransform' = c.transform
        /\ fxClip' = c.clip
        /\ fxStack' = c.stack
  /\ fxUpdates' = fxUpdates + 1
  /\ UNCHANGED <<fxFaces, fxEffect, fxIdx, fxLog>>
  /\ UNCHANGED <<canvasVars, hostVars, buildupVars, serviceVars, callVars>>

\* the context as draw() leaves it (its save and restore are paired)
CtxAtRest ==
  /\ fxTransform = Identity
  /\ fxClip = NoClip
  /\ fxStack = <<>>

\* no applyFaceEffects call
FaceIdle ==
  /\ fxFaces = <<>>
  /\ fxEffect = "censor-eyes"
  /\ fxPc = "idle"
  /\ fxIdx = 0
  /\ CtxAtRest
  /\ fxLog = <<>>
  /\ fxUpdates = 0

\* ----------------------------------------------------------- edit service
\* editImageWithPhotominiAI.  The repository holds five versions of it; a
\* build has one of them and the key vite.config.ts found, if any.

MaxCalls == 2

Versions == {"part_003", "part_004", "part_004b", "imageUtils", "part_005"}

\* process.env.API_KEY or __API_KEY__ of the build: not defined, the empty
\* string vite.config.ts injects for a missing key, or a key
Keys == {"undefined", "", "AIza"}

\* !apiKey
Falsy(k) == k = "undefined" \/ k = ""

\* the validation at the head of the function: only three of the versions
\* have one (part_005 asks for a key for modelType 'pro' only, and App calls
\* it with the default 'standard')
ChecksKey(v) == v \in {"part_003", "part_004", "part_004b"}

ConfigError == "API Key is missing"
Responses == {"image", "no content", "no image data", "network error"}

\* the call, up to the validation
editImageWithPhotominiAI ==
  /\ svPc = "idle"
  /\ svCalls < MaxCalls
  /\ svCalls' = svCalls + 1
  /\ IF ChecksKey(svVersion) /\ Falsy(svKey)
     THEN /\ svPc' = "idle"
          /\ svResult' = ConfigError
     ELSE /\ svPc' = "checked"
          /\ UNCHANGED svResult
  /\ UNCHANGED <<svVersion, svKey, svRequests, svKeyless>>
  /\ UNCHANGED <<canvasVars, hostVars, buildupVars, faceVars, callVars>>

\* new GoogleGenAI({ apiKey }): the library is not part of the repository;
\* given no key it may construct the client or throw
newGoogleGenAI(constructs) ==
  /\ svPc = "checked"
  /\ ~Falsy(svKey) => constructs
  /\ IF constructs
     THEN /\ svPc' = "constructed"
          /\ UNCHANGED svResult
     ELSE /\ svPc' = "idle"
          /\ svResult' = "client error"
  /\ UNCHANGED <<svVersion, svKey, svCalls, svRequests, svKeyless>>
  /\ UNCHANGED <<canvasVars, hostVars, buildupVars, faceVars, callVars>>

\* ai.models.generateContent: the request goes out
generateContent ==
  /\ svPc = "constructed"
  /\ svPc' = "requested"
  /\ svRequests' = svRequests + 1
  /\ svKeyless' = (svKeyless \/ Falsy(svKey))
  /\ UNCHANGED <<svVersion, svKey, svCalls, svResult>>
  /\ UNCHANGED <<canvasVars, hostVars, buildupVars, faceVars, callVars>>

\* the response is parsed: an image is returned, anything else is thrown
editSettled(response) ==
  /\ svPc = "requested"
  /\ svPc' = "idle"
  /\ svResult' = response
  /\ UNCHANGED <<svVersion, svKey, svCalls, svRequests, svKeyless>>
  /\ UNCHANGED <<canvasVars, hostVars, buildupVars, faceVars, callVars>>

\* no service call
ServiceIdle ==
  /\ svVersion = "part_003"
  /\ svKey = "AIza"
  /\ svPc = "idle"
  /\ svCalls = 0
  /\ svRequests = 0
  /\ svKeyless = FALSE
  /\ svResult = "none"

\* ------------------------------------------------------ stateless functions
\* One call: arg is drawn by the specification, the action of the function
\* sets result.

NoResult == <<"no result">>

\* no call
CallIdle ==
  /\ arg = <<>>
  /\ result = NoResult
  /\ returned = FALSE

\* ------------------------------------------------------------- detectFaces
MaxDetections == 2

\* bounding boxes the detector may report, in pixels
BoxSides == {10, 15, 20, 25, 40, 60}
Boxes == [width : BoxSides, height : BoxSides]

\* <<img.width, img.height>> of the image given to the detector
DetectImages == {<<400, 500>>, <<2000, 1500>>}

Detections == UNION {[1 .. n -> Boxes] : n \in 0 .. MaxDetections}

\* the two filters of the forEach callback: true when the detection is kept.
\* width < minSize with minSize = min(img.width, img.height) * 0.02, and
\* ratio = width / height against 0.5 and 2.0, in whole numbers.
passesFilters(det, img) ==
  LET smaller == Min(img[1], img[2])
  IN /\ ~(det.width < 20 \/ det.height < 20 \/ 100 * det.width < 2 * smaller)
     /\ ~(2 * det.width < det.height \/ det.width > 2 * det.height)

\* validFaces as the forEach leaves it: pushes keep the detector's order
validFaces(detections, img) ==
  SelectSeq(detections, LAMBDA det : passesFilters(det, img))

\* detectFaces, from the detector's answer to resolve(validFaces)
detectFacesReturns ==
  /\ ~returned
  /\ result' = validFaces(arg.detections, arg.img)
  /\ returned' = TRUE
  /\ UNCHANGED arg
  /\ UNCHANGED offCall

\* ------------------------------------------------------ applyFiltersToImage
BakeW == 2
BakeH == 1

\* pixels of an image file: opaque, translucent, and transparent with and
\* without colour
BakePalette == {Opaque(200, 100, 50), <<200, 100, 50, 128>>, Transparent, <<255, 0, 0, 0>>}

BakeImages ==
  {[width |-> BakeW, height |-> BakeH, px |-> f] :
     f \in [(0 .. BakeW - 1) \X (0 .. BakeH - 1) -> BakePalette]}

\* the filters the call is made with: brightness and rotation vary, the
\* other five stay at their defaults
IdentityFilters == [brightness |-> 100, rotation |-> 0]
Brightnesses == {100, 50}

\* how a canvas keeps its bitmap: the platform's choice.  A premultiplied
\* bitmap holds colour * alpha / 255 in 8 bits.
BitmapStores == {"premultiplied", "straight"}

\* brightness(b%) on one pixel
Brighten(px, b) ==
  <<Clamp255(RoundDiv(px[1] * b, 100)), Clamp255(RoundDiv(px[2] * b, 100)),
    Clamp255(RoundDiv(px[3] * b, 100)), px[4]>>

\* a pixel drawn on the cleared canvas and read back by toDataURL
ThroughBitmap(px, store) ==
  IF px[4] = 0
  THEN Transparent
  ELSE IF store = "straight"
       THEN px
       ELSE LET pre(c) == RoundDiv(c * px[4], 255)
                un(c) == Min(255, RoundDiv(pre(c) * 255, px[4]))
            IN <<un(px[1]), un(px[2]), un(px[3]), px[4]>>

\* where translate(canvas.width / 2, canvas.height / 2), rotate(rotation)
\* and drawImage(img, -img.width / 2, -img.height / 2) put pixel (x, y)
Rotated(x, y, img, rotation) ==
  CASE rotation = 0 -> <<x, y>>
    [] rotation = 90 -> <<img.height - 1 - y, x>>
    [] rotation = 180 -> <<img.width - 1 - x, img.height - 1 - y>>
    [] rotation = 270 -> <<y, img.width - 1 - x>>

\* the image the promise resolves with
Baked(img, fs, store) ==
  LET isRotated90or270 == fs.rotation = 90 \/ fs.rotation = 270
      w == IF isRotated90or270 THEN img.height ELSE img.width
      h == IF isRotated90or270 THEN img.width ELSE img.height
      from(q) == CHOOSE p \in DOMAIN img.px :
                   Rotated(p[1], p[2], img, fs.rotation) = q
  IN [width |-> w,
      height |-> h,
      px |-> [q \in (0 .. w - 1) \X (0 .. h - 1) |->
                ThroughBitmap(Brighten(img.px[from(q)], fs.brightness), store)]]

\* the Rotate 90 button
rotate90 ==
  /\ ~returned
  /\ arg' = [arg EXCEPT !.filters.rotation = (arg.filters.rotation + 90) % 360]
  /\ UNCHANGED <<result, returned>>
  /\ UNCHANGED offCall

\* the Brightness slider
setBrightness(v) ==
  /\ ~returned
  /\ v # arg.filters.brightness
  /\ arg' = [arg EXCEPT !.filters.brightness = v]
  /\ UNCHANGED <<result, returned>>
  /\ UNCHANGED offCall

applyFiltersToImage ==
  /\ ~returned
  /\ result' = Baked(arg.img, arg.filters, arg.store)
  /\ returned' = TRUE
  /\ UNCHANGED arg
  /\ UNCHANGED offCall

\* ------------------------------------------------------------- censor-eyes
\* The forEach callback of applyFaceEffects for effect 'censor-eyes', by
\* what it draws: a rectangle in the frame it set up, in thousandths of a
\* pixel, and what becomes of the surface pixel at the centre of the face's
\* bounding box.

\* landmarks of a face: none, one, or the right and the left eye
LandmarkLists ==
  {<<>>,
   <<[x |-> 12, y |-> 14]>>,
   <<[x |-> 12, y |-> 14], [x |-> 28, y |-> 14]>>,
   <<[x |-> 12, y |-> 14], [x |-> 28, y |-> 20]>>,
   <<[x |-> 28, y |-> 14], [x |-> 12, y |-> 14], [x |-> 20, y |-> 24]>>}

FaceBoxes ==
  [originX : {0, 10}, originY : {0, 20}, width : {20, 40}, height : {20, 40}]

CensorFaces == [boundingBox : FaceBoxes, landmarks : LandmarkLists]

\* pixels the surface may hold at the centre of the box
CentrePixels == {Opaque(200, 100, 50), <<200, 100, 50, 128>>, Transparent}

NoBar == [drawn |-> FALSE]

\* Math.atan2(y, x), kept as its arguments
Atan2(y, x) == <<"atan2", y, x>>

\* getFaceGeometry; the centre in half-pixels, the angle 0 as atan2(0, 1)
getFaceGeometry(face) ==
  LET box == face.boundingBox
  IN [centerX2 |-> 2 * box.originX + box.width,
      centerY2 |-> 2 * box.originY + box.height,
      width |-> box.width,
      height |-> box.height,
      angle |-> IF Len(face.landmarks) >= 2
                THEN Atan2(face.landmarks[2].y - face.landmarks[1].y,
                           face.landmarks[2].x - face.landmarks[1].x)
                ELSE Atan2(0, 1)]

\* the callback for one face, on a context in mode op with alpha ga
CensorEyes(face, px, op, ga) ==
  LET g == getFaceGeometry(face)
  IN IF Len(face.landmarks) >= 2
     THEN LET barWidth == 1000 * g.width
              barHeight == 250 * g.height
              eyeYOffset == -100 * g.height
          IN [bar |-> [drawn |-> TRUE,
                       translate2 |-> <<g.centerX2, g.centerY2>>,
                       rotate |-> g.angle,
                       x |-> -(barWidth \div 2),
                       y |-> eyeYOffset - barHeight \div 2,
                       width |-> barWidth,
                       height |-> barHeight,
                       fillStyle |-> "#000000"],
              pixel |-> Composite(op, ga, HexColor("#000000"), px)]
     ELSE \* the branch of blur and pixelate: the box is captured on tempC,
          \* no effect is applied to it, and tempC is drawn back in the clip
          LET tempC == Composite("source-over", 255, px, Transparent)
          IN [bar |-> NoBar,
              pixel |-> Composite(op, ga, tempC, px)]

censorEyes ==
  /\ ~returned
  /\ result' = CensorEyes(arg.face, arg.pixel, "source-over", 255)
  /\ returned' = TRUE
  /\ UNCHANGED arg
  /\ UNCHANGED offCall

\* ------------------------------------------------------- stamp interpolation
\* The loop of draw() for eraser, blur and pixelate, with the pointer moving
\* along one line.  Lengths are in quarter pixels, in which size / 4 is whole
\* for every whole size.

MaxSize == 9
MaxMoves == 2
MaxTrack == 6

\* pointer positions on the line, a whole number of pixels each
TrackPositions == {4 * k : k \in 0 .. MaxTrack}

\* step = Math.max(1, settings.size / 4)
StepQ(size) == Max(4, size)

\* a plausible slip: for (let i = 0; i < dist; i += step)
RECURSIVE StampOffsetsExclusive(_, _, _)
StampOffsetsExclusive(i, dist, step) ==
  IF i < dist THEN <<i>> \o StampOffsetsExclusive(i + step, dist, step) ELSE <<>>

\* for (let i = 0; i <= dist; i += step): the values of i, from i on
RECURSIVE StampOffsets(_, _, _)
StampOffsets(i, dist, step) ==
  IF i <= dist THEN <<i>> \o StampOffsets(i + step, dist, step) ELSE <<>>

\* the stamp centres of one sample from p to q: prev + direction * i
SampleStamps(p, q, size) ==
  LET offsets == StampOffsets(0, Abs(q - p), StepQ(size))
      direction == IF q >= p THEN 1 ELSE -1
  IN [k \in 1 .. Len(offsets) |-> p + direction * offsets[k]]

\* draw() with a stamping tool: the sample from lastPos to q
drawStamps(q) ==
  /\ ~returned
  /\ result' = result \o SampleStamps(arg.lastPos, q, arg.size)
  /\ arg' = [arg EXCEPT !.lastPos = q, !.moves = arg.moves + 1]
  /\ returned' = (arg.moves + 1 >= MaxMoves)
  /\ UNCHANGED offCall

\* ---------------------------------------------------------- specifications
\* the canvas as it is mounted with picture pic, tool t and settings s
CanvasInit(pic, t, s) ==
  /\ canvas = pic
  /\ imageSrc = FileImage(pic)
  /\ restoreImg = [loaded |-> FALSE, px |-> pic]
  /\ strokeStart = pic
  /\ ctxOp = "source-over"
  /\ ctxAlpha = 255
  /\ snapshotCanvas = Blank
  /\ strokeCanvas = Blank
  /\ restoreLoading = TRUE
  /\ isDrawing = FALSE
  /\ lastPos = NoPos
  /\ tool = t
  /\ settings = s
  /\ loading = <<>>
  /\ updates = 0
  /\ strokeCover = {}
  /\ samples = 0
  /\ nPointer = 0
  /\ nConfig = 0

\* App's state next to the image slots as its useState calls leave it
AppStart ==
  /\ isDetectingFaces = FALSE
  /\ error = NoError
  /\ filters = DEFAULT_FILTERS
  /\ aiPrompt = ""
  /\ aiOutstanding = 0

\* the host after an upload, with the Draw tab open
HostEditing ==
  /\ currentImage = Upload
  /\ baseImage = Upload
  /\ originalImage = Upload
  /\ checkPointImage = Upload
  /\ activeTab = "manual"
  /\ isProcessing = FALSE
  /\ detectedFaces = FALSE
  /\ mounted = TRUE
  /\ canvasDims = Upload.dims
  /\ restoreImgRef = NoImage
  /\ imageLoads = {}
  /\ restoreLoads = {Upload}
  /\ lastAiResult = NoImage
  /\ nImages = 0
  /\ painted = FALSE
  /\ AppStart
  /\ dailyUsage = 0
  /\ usageStored = 0

\* the host as App's useState calls leave it
HostStart ==
  /\ currentImage = NoImage
  /\ baseImage = NoImage
  /\ originalImage = NoImage
  /\ checkPointImage = NoImage
  /\ activeTab = "adjust"
  /\ isProcessing = FALSE
  /\ detectedFaces = FALSE
  /\ mounted = FALSE
  /\ canvasDims = DefaultCanvasDims
  /\ restoreImgRef = NoImage
  /\ imageLoads = {}
  /\ restoreLoads = {}
  /\ lastAiResult = NoImage
  /\ nImages = 0
  /\ painted = FALSE
  /\ AppStart

\* no App in use
HostIdle ==
  /\ HostStart
  /\ dailyUsage = 0
  /\ usageStored = 0

Init ==
  /\ \E pic \in Pictures, t \in Tools, s \in SettingsSet : CanvasInit(pic, t, s)
  /\ HostEditing
  /\ BuildupIdle
  /\ FaceIdle
  /\ ServiceIdle
  /\ CallIdle

Next ==
  \/ \E pos \in Positions : startDrawing(pos)
  \/ \E pos \in Positions : draw(pos)
  \/ onMouseUp
  \/ onMouseLeave
  \/ onTouchEnd
  \/ \E k \in 1 .. Len(loading) : imageOnLoad(k)
  \/ restoreOnLoad
  \/ \E t \in Tools : setManualTool(t)
  \/ \E s \in SettingsSet : setBrushSettings(s)

Spec == Init /\ [][Next]_vars

HostInit ==
  /\ CanvasInit(Picture(0), "brush", [size |-> 2, color |-> "#f59e0b", intensity |-> 2])
  /\ HostStart
  /\ dailyUsage \in {0, DAILY_LIMIT - 1, DAILY_LIMIT}
  /\ usageStored = dailyUsage
  /\ BuildupIdle
  /\ FaceIdle
  /\ ServiceIdle
  /\ CallIdle

HostNext ==
  \/ handleFileUpload(Upload)
  \/ handleFileUploadFailed
  \/ handleReset
  \/ handleClear
  \/ strokeSampled
  \/ strokeCommitted
  \/ handleDetectFaces
  \/ \E outcome \in DetectorOutcomes : detectSettled(outcome)
  \/ cancelFaces
  \/ handleApplyFaceEffect
  \/ handleAiEdit
  \/ \E dims \in AiDims : aiEditResolved(dims)
  \/ \E err \in AiErrors : aiEditRejected(err)
  \/ \E t \in Tabs : setActiveTab(t)
  \/ \E f \in FilterStates : setFilters(f)
  \/ \E p \in Prompts : setAiPrompt(p)
  \/ dismissError
  \/ \E img \in imageLoads : surfaceLoaded(img)
  \/ \E img \in restoreLoads : checkpointLoaded(img)

HostSpec == HostInit /\ [][HostNext]_vars

BuildupInit ==
  /\ CanvasInit(Picture(0), "brush", [size |-> 2, color |-> "#f59e0b", intensity |-> 2])
  /\ HostIdle
  /\ bdTool \in TonalTools
  /\ bdStart \in BuildupPixels
  /\ bdPixel = bdStart
  /\ bdStrokes = 0
  /\ FaceIdle
  /\ ServiceIdle
  /\ CallIdle

BuildupNext == restroke

BuildupSpec == BuildupInit /\ [][BuildupNext]_vars

FaceInit ==
  /\ CanvasInit(Picture(0), "brush", [size |-> 2, color |-> "#f59e0b", intensity |-> 2])
  /\ HostIdle
  /\ BuildupIdle
  /\ fxFaces \in FaceLists
  /\ fxEffect \in FaceEffects
  /\ fxPc = "idle"
  /\ fxIdx = 0
  /\ CtxAtRest
  /\ fxLog = <<>>
  /\ fxUpdates = 0
  /\ ServiceIdle
  /\ CallIdle

FaceNext == fxBegin \/ fxFace \/ fxEnd

FaceSpec == FaceInit /\ [][FaceNext]_vars

ServiceInit ==
  /\ CanvasInit(Picture(0), "brush", [size |-> 2, color |-> "#f59e0b", intensity |-> 2])
  /\ HostIdle
  /\ BuildupIdle
  /\ FaceIdle
  /\ svVersion \in Versions
  /\ svKey \in Keys
  /\ svPc = "idle"
  /\ svCalls = 0
  /\ svRequests = 0
  /\ svKeyless = FALSE
  /\ svResult = "none"
  /\ CallIdle

ServiceNext ==
  \/ editImageWithPhotominiAI
  \/ \E constructs \in BOOLEAN : newGoogleGenAI(constructs)
  \/ generateContent
  \/ \E response \in Responses : editSettled(response)

ServiceSpec == ServiceInit /\ [][ServiceNext]_vars

\* the other groups of variables at rest
AllIdle ==
  /\ CanvasInit(Picture(0), "brush", [size |-> 2, color |-> "#f59e0b", intensity |-> 2])
  /\ HostIdle
  /\ BuildupIdle
  /\ FaceIdle
  /\ ServiceIdle

DetectInit ==
  /\ AllIdle
  /\ arg \in [detections : Detections, img : DetectImages]
  /\ result = NoResult
  /\ returned = FALSE

DetectNext == detectFacesReturns

DetectSpec == DetectInit /\ [][DetectNext]_vars

BakeInit ==
  /\ AllIdle
  /\ \E img \in BakeImages, store \in BitmapStores :
       arg = [img |-> img, filters |-> IdentityFilters, store |-> store]
  /\ result = NoResult
  /\ returned = FALSE

BakeNext ==
  \/ rotate90
  \/ \E v \in Brightnesses : setBrightness(v)
  \/ applyFiltersToImage

BakeSpec == BakeInit /\ [][BakeNext]_vars

CensorInit ==
  /\ AllIdle
  /\ arg \in [face : CensorFaces, pixel : CentrePixels]
  /\ result = NoResult
  /\ returned = FALSE

CensorNext == censorEyes

CensorSpec == CensorInit /\ [][CensorNext]_vars

\* a stroke has begun at a position of the line: startDrawing set lastPos
StampInit ==
  /\ AllIdle
  /\ arg \in [size : 1 .. MaxSize, lastPos : TrackPositions, moves : {0}]
  /\ result = <<>>
  /\ returned = FALSE

StampNext == \E q \in TrackPositions : drawStamps(q)

StampSpec == StampInit /\ [][StampNext]_vars

\* ============================================================== properties
BlendTools == {"invert", "desaturate", "tint", "lighten", "darken"}

\* the stroke-start surface composited once with the stroke buffer
CompositeOnce(t, start, mask) == DrawImage(BlendOp(t), BlendAlpha(t), mask, start)

\* a step that applies a sample
SampleStep == samples' = samples + 1

\* C1: for every blend-mode tool, after every sample of a stroke the live
\* surface equals the stroke-start surface composited exactly once with the
\* stroke buffer under the tool's mode and opacity.  Stated for the samples
\* of a stroke whose snapshot is the stroke-start surface and whose mask
\* lies within the stroke's own samples (C5 and C6 are about the others).
C1_CompositedOnce ==
  [][(/\ isDrawing /\ tool \in BlendTools
      /\ snapshotCanvas = strokeStart
      /\ \A p \in Pix : strokeCanvas[p] # Transparent => p \in strokeCover
      /\ \E pos \in Positions : draw(pos))
       => canvas' = CompositeOnce(tool, strokeStart, strokeCanvas')]_vars

\* C2: leaving Drawing (pointer-up, pointer-leave, touch-end) emits exactly
\* one update, which carries the surface as painted so far and leaves the
\* surface alone; each of the three events ends a stroke in progress; no
\* other step emits an update: not a pointer-move sample, and not a
\* pointer-up or pointer-leave that arrives while Idle.
C2_OneUpdatePerStroke ==
  [][/\ (isDrawing /\ ~isDrawing')
          => /\ updates' = updates + 1
             /\ imageSrc' = toDataURL(canvas)
             /\ canvas' = canvas
     /\ (isDrawing /\ (onMouseUp \/ onMouseLeave \/ onTouchEnd)) => ~isDrawing'
     /\ (isDrawing' = isDrawing) => (updates' = updates /\ imageSrc' = imageSrc)]_vars

\* a stroke with samples was committed and the host holds the painted surface
C2_Witness ==
  /\ ~isDrawing
  /\ updates = 1
  /\ samples >= 2
  /\ imageSrc = toDataURL(canvas)
  /\ canvas # strokeStart

\* C3: Drawing is entered only by pointer-down and left only by
\* pointer-up/leave/touch-end, and a pointer-move changes the live surface,
\* the last position or anything else only while the state is Drawing.
C3_TwoStateMachine ==
  [][/\ (~isDrawing /\ isDrawing') => \E pos \in Positions : startDrawing(pos)
     /\ (isDrawing /\ ~isDrawing') => (onMouseUp \/ onMouseLeave \/ onTouchEnd)
     /\ (~isDrawing /\ \E pos \in Positions : draw(pos))
          => (canvas' = canvas /\ lastPos' = lastPos /\ strokeCanvas' = strokeCanvas)
     /\ SampleStep => isDrawing]_vars

\* back in Idle after a stroke whose pointer-moves painted
C3_Witness ==
  /\ ~isDrawing
  /\ lastPos = NoPos
  /\ updates >= 1
  /\ samples >= 1
  /\ canvas # strokeStart

\* C4: pointer-down from Idle records the position and applies one sample
\* of the selected tool at that position at once.
C4_TapPaints ==
  [][\A pos \in Positions :
       (~isDrawing /\ startDrawing(pos))
         => /\ lastPos' = pos
            /\ canvas' = DrawSample(tool, settings, canvas, snapshotCanvas',
                                    IF isComplexTool(tool) THEN Blank ELSE strokeCanvas,
                                    ctxOp, ctxAlpha, restoreImg, pos, pos.x, pos.y).canvas]_vars

\* C5: a pointer-down that arrives while Drawing neither re-seeds the
\* snapshot buffer, nor clears the stroke buffer, nor resets the previous
\* position.
C5_NoNestedStroke ==
  [][\A pos \in Positions :
       (isDrawing /\ startDrawing(pos))
         => /\ snapshotCanvas' = snapshotCanvas
            /\ strokeCanvas' = strokeCanvas
            /\ lastPos' = lastPos]_vars

\* C6: whenever a blend-mode sample is composited, the snapshot buffer holds
\* the live surface as it was at the pointer-down of that stroke and the
\* stroke buffer holds paint of that stroke only.
C6_BuffersOfThisStroke ==
  [][(SampleStep /\ tool \in BlendTools)
       => /\ snapshotCanvas' = strokeStart'
          /\ \A p \in Pix : strokeCanvas'[p] # Transparent => p \in strokeCover']_vars

\* the disks of the stamps one sample of a stamping tool applies
StampDisks(s, last, x, y) ==
  LET prevX == IF last # NoPos THEN last.x ELSE x
      prevY == IF last # NoPos THEN last.y ELSE y
  IN {p \in Pix : \E c \in StampCentres(s, prevX, prevY, x, y) : InDisk(p, c[1], c[2], s.size)}

\* C7: with a checkpoint loaded, an eraser sample sets exactly the pixels
\* inside its stamps' disks to the checkpoint's pixels at the same
\* coordinates and leaves every other pixel unchanged.
C7_EraserRestores ==
  [][\A pos \in Positions :
       (isDrawing /\ tool = "eraser" /\ restoreImg.loaded /\ draw(pos))
         => \A p \in Pix :
              canvas'[p] = IF p \in StampDisks(settings, lastPos, pos.x, pos.y)
                           THEN restoreImg.px[p]
                           ELSE canvas[p]]_vars

\* C8: whenever the eraser can run with a checkpoint loaded (the canvas is
\* mounted, no processing overlay covers it, and the restore image has been
\* decoded), the checkpoint's pixel dimensions equal the live surface's.
C8_CheckpointDimsMatch ==
  (mounted /\ ~isProcessing /\ restoreImgRef # NoImage)
    => restoreImgRef.dims = canvasDims

\* C9: the checkpoint slot changes only in an upload, a reset, a clear or a
\* successful AI edit, and is then the original image slot (absent after a
\* clear) or the latest AI result; a stroke sample, a stroke commit and a
\* face-effect batch leave the slot and the decoded checkpoint as they are.
C9_CheckpointReadOnly ==
  [][/\ checkPointImage' # checkPointImage
          => /\ \/ handleFileUpload(Upload)
                \/ handleReset
                \/ handleClear
                \/ \E dims \in AiDims : aiEditResolved(dims)
             /\ checkPointImage' \in {originalImage', lastAiResult'}
     /\ (strokeSampled \/ strokeCommitted \/ handleApplyFaceEffect)
          => /\ checkPointImage' = checkPointImage
             /\ restoreImgRef' = restoreImgRef]_vars

\* C9 witness: the checkpoint is an AI result, not the original, and a stroke
\* has been committed over it since
C9_Witness ==
  /\ checkPointImage = lastAiResult
  /\ checkPointImage.kind = "ai"
  /\ originalImage = Upload
  /\ baseImage.kind = "edit"
  /\ baseImage.n > checkPointImage.n
  /\ restoreImgRef = checkPointImage

\* C10: during and after a stroke made with one of the blur, pixelate and
\* blend-mode tools, no pixel outside the union of the disks of radius size/2
\* along the stroke's samples differs from its value before the stroke.
C10_StrokeContained ==
  (isDrawing /\ nConfig = 0 /\ tool \in BlendTools \cup {"blur", "pixelate"})
    => \A p \in Pix \ strokeCover : canvas[p] = strokeStart[p]

C12_FaceBatch ==
  /\ Len(fxLog) = fxIdx
  /\ \A i \in 1 .. Len(fxLog) :
       /\ fxLog[i].face = fxFaces[i]
       /\ LET own == FaceFrame([transform |-> Identity, clip |-> NoClip, stack |-> <<>>],
                               fxFaces[i], fxEffect)
          IN /\ fxLog[i].transform = own.transform
             /\ fxLog[i].clip = own.clip
  /\ fxPc # "done" => fxUpdates = 0
  /\ fxPc = "faces" => Len(fxStack) = 1
  /\ fxPc = "done" => /\ fxUpdates = 1
                      /\ fxIdx = Len(fxFaces)
                      /\ CtxAtRest

\* C12 witness: a call over two faces, the second tilted and clipped, has
\* returned
C12_Witness ==
  /\ fxPc = "done"
  /\ Len(fxFaces) = 2
  /\ fxFaces[1] # fxFaces[2]
  /\ fxLog[2].clip # NoClip
  /\ fxLog[2].face.angle # 0
  /\ fxUpdates = 1

\* C13: no effect application, cancel, upload, reset, clear or successful
\* AI edit can end with a non-empty face list, and applying with an empty
\* list changes no image and emits no update.
C13_FacesConsumed ==
  /\ ~ENABLED (/\ \/ handleApplyFaceEffect
                  \/ cancelFaces
                  \/ handleFileUpload(Upload)
                  \/ handleReset
                  \/ handleClear
                  \/ \E dims \in AiDims : aiEditResolved(dims)
               /\ detectedFaces')
  /\ ~ENABLED (/\ handleApplyFaceEffect
               /\ ~detectedFaces
               /\ baseImage' # baseImage \/ nImages' # nImages)

\* C14: while a face detection is outstanding no stroke is started on the
\* surface.
C14_NoStrokeWhileDetecting ==
  [][strokeSampled => ~isDetectingFaces]_vars

\* C15: while a surface image is being decoded no stroke sample and no face
\* effect is applied to the surface, and the decode of a committed image
\* never replaces a surface that was painted on since the commit.
C15_NoPaintWhileLoading ==
  [][/\ (strokeSampled \/ (handleApplyFaceEffect /\ detectedFaces /\ mounted))
          => imageLoads = {}
     /\ (\E img \in imageLoads : surfaceLoaded(img)) => ~painted]_vars

\* C16: at most one AI edit is outstanding at any time, the busy flag is set
\* exactly while one is, and while it is set no press of Generate starts
\* another; so the flag is clear after every outcome.
C16_AiSerialized ==
  /\ aiOutstanding \in {0, 1}
  /\ isProcessing <=> aiOutstanding = 1
  /\ isProcessing => ~ENABLED (handleAiEdit /\ aiOutstanding' # aiOutstanding)

\* C16 witness: after one edit succeeded and the flag was cleared, a later
\* request was accepted and is outstanding
C16_Witness ==
  /\ isProcessing
  /\ aiOutstanding = 1
  /\ lastAiResult # NoImage

\* C17: a failed AI edit leaves base image, checkpoint, current image,
\* filters, prompt, face list and daily usage as they were and sets the error
\* message: the one thrown when there is one, the general one otherwise.
C17_AiFailureKeepsState ==
  [][\A err \in AiErrors :
       aiEditRejected(err)
         => /\ UNCHANGED <<baseImage, checkPointImage, currentImage, originalImage,
                           filters, aiPrompt, detectedFaces, dailyUsage>>
            /\ error' = IF err = ServiceMessage THEN ServiceMessage ELSE AiFailed
            /\ ~isProcessing']_vars

\* C17 witness: an edit of an image with edited filters has failed with the
\* service's message, and image, filters and prompt are still there
C17_Witness ==
  /\ error = ServiceMessage
  /\ ~isProcessing
  /\ currentImage = Upload
  /\ baseImage = Upload
  /\ filters # DEFAULT_FILTERS
  /\ aiPrompt # ""

\* C18: a failed file read changes the error message only; a successful one
\* sets base, original, checkpoint and current image to the one new image.
C18_UploadAllOrNothing ==
  [][/\ handleFileUploadFailed
          => /\ UNCHANGED <<baseImage, originalImage, checkPointImage, currentImage,
                            filters, detectedFaces>>
             /\ error' = LoadFailed
     /\ handleFileUpload(Upload)
          => /\ baseImage' = Upload
             /\ originalImage' = Upload
             /\ checkPointImage' = Upload
             /\ currentImage' = Upload]_vars

\* C18 witness: an image was uploaded, edited and closed, and the read of
\* the next file has failed
C18_Witness ==
  /\ error = LoadFailed
  /\ currentImage = NoImage
  /\ baseImage = NoImage
  /\ nImages > 0

\* C19: a detection in which the detector threw or was unavailable ends with
\* the detection-failure message, one in which it ran and found no face with
\* the no-faces message; either way the list is empty afterwards if it was
\* before, no image changes and the detecting flag is false.
C19_DetectFailureMessage ==
  [][\A outcome \in {"throws", "unavailable", "none"} :
       detectSettled(outcome)
         => /\ error' = IF outcome = "none" THEN NoFaces ELSE DetectFailed
            /\ detectedFaces' = detectedFaces
            /\ baseImage' = baseImage
            /\ ~isDetectingFaces']_vars

\* C20: with the API key absent or empty, no request is ever sent to the
\* edit service, and every call ends with an error raised before the
\* request: the configuration error, or the client library's refusal.
C20_NoRequestWithoutKey ==
  Falsy(svKey) => /\ svRequests = 0
                  /\ ~svKeyless
                  /\ (svPc = "idle" /\ svCalls > 0)
                       => svResult \in {ConfigError, "client error"}

\* C21: detectFaces returns, in the detector's order, exactly the detections
\* whose box is at least 20px wide and high or at least 2% of the smaller
\* image dimension wide and high, with a width/height ratio from 0.5 to 2.0.
C21_DocumentedFilters ==
  returned =>
    LET smaller == Min(arg.img[1], arg.img[2])
        documented(det) ==
          /\ \/ det.width >= 20 /\ det.height >= 20
             \/ 100 * det.width >= 2 * smaller /\ 100 * det.height >= 2 * smaller
          /\ 2 * det.width >= det.height
          /\ det.width =< 2 * det.height
    IN result = SelectSeq(arg.detections, documented)

\* C22: the rotation is always 0, 90, 180 or 270; a bake swaps width and
\* height exactly for 90 and 270; and a bake with the identity filters gives
\* back the image, pixel for pixel.
C22_IdentityBake ==
  /\ arg.filters.rotation \in {0, 90, 180, 270}
  /\ returned =>
       /\ (result.width = arg.img.height /\ result.height = arg.img.width)
            <=> arg.filters.rotation \in {90, 270}
       /\ (result.width = arg.img.width /\ result.height = arg.img.height)
            <=> arg.filters.rotation \in {0, 180}
       /\ arg.filters = IdentityFilters => result = arg.img

C24_CensorBar ==
  returned =>
    LET box == arg.face.boundingBox
        marks == arg.face.landmarks
    IN IF Len(marks) >= 2
       THEN /\ result.bar.drawn
            /\ result.bar.fillStyle = "#000000"
            /\ result.pixel = Opaque(0, 0, 0)
            /\ result.bar.width = 1000 * box.width
            /\ 4 * result.bar.height = 1000 * box.height
            /\ 2 * result.bar.x + result.bar.width = 0
            /\ 10 * (2 * result.bar.y + result.bar.height) = -2000 * box.height
            /\ result.bar.translate2 = <<2 * box.originX + box.width,
                                         2 * box.originY + box.height>>
            /\ result.bar.rotate = Atan2(marks[2].y - marks[1].y, marks[2].x - marks[1].x)
       ELSE /\ result.bar = NoBar
            /\ result.pixel = arg.pixel

\* C25: one pixelate stamp at (cx, cy), on a context at rest, fills every
\* cell of the grid of side intensity aligned to multiples of it whose centre
\* is within size/2 of (cx, cy) with the colour the surface had at the cell
\* centre, and writes no other pixel.
C25_PixelateStamp ==
  [][\A pos \in Positions :
       (/\ isDrawing /\ tool = "pixelate"
        /\ ctxOp = "source-over" /\ ctxAlpha = 255
        /\ lastPos = pos
        /\ draw(pos))
         => \A p \in Pix :
              LET side == settings.intensity
                  centreX2 == 2 * ((p[1] \div side) * side) + side
                  centreY2 == 2 * ((p[2] \div side) * side) + side
                  centre == <<centreX2 \div 2, centreY2 \div 2>>
                  within == (centreX2 - pos.x) * (centreX2 - pos.x)
                              + (centreY2 - pos.y) * (centreY2 - pos.y)
                              <= settings.size * settings.size
              IN canvas'[p] = IF within /\ centre \in Pix
                              THEN Opaque(canvas[centre][1], canvas[centre][2],
                                          canvas[centre][3])
                              ELSE canvas[p]]_vars

\* C26: a sample from P to Q of a stamping tool stamps first at P, then
\* every step = max(1, size/4) along the segment while within |PQ|, so that
\* its last stamp is less than step from Q; and along the whole stroke no
\* two neighbouring stamps are further apart than step.
C26_StampSpacing ==
  /\ [][\A q \in TrackPositions :
          drawStamps(q)
            => LET stamps == SampleStamps(arg.lastPos, q, arg.size)
                   step == IF arg.size >= 4 THEN arg.size ELSE 4
               IN /\ result' = result \o stamps
                  /\ Len(stamps) >= 1
                  /\ stamps[1] = arg.lastPos
                  /\ \A k \in 1 .. Len(stamps) - 1 :
                       /\ Abs(stamps[k + 1] - stamps[k]) = step
                       /\ Abs(q - stamps[k + 1]) < Abs(q - stamps[k])
                  /\ Abs(q - stamps[Len(stamps)]) < step]_vars
  /\ [](\A k \in 1 .. Len(result) - 1 :
          Abs(result[k + 1] - result[k]) =< (IF arg.size >= 4 THEN arg.size ELSE 4))

\* C26 witness: a stroke of two samples whose first sample stamped three
\* times and stopped short of its end point
C26_Witness ==
  /\ returned
  /\ arg.size = 6
  /\ Len(result) >= 5
  /\ result[1] = 0
  /\ result[3] = 12
  /\ result[4] = 16

\* C27: the four image slots are consistent in every reachable state: an
\* image is shown only while a base, a checkpoint and an original are all
\* present, so a result of the AI service that arrives after the image it
\* was computed from was cleared is not applied.
C27_SlotsConsistent ==
  currentImage # NoImage
    => /\ baseImage # NoImage
       /\ checkPointImage # NoImage
       /\ originalImage # NoImage

\* C28: a non-empty face list was detected on the image that is loaded:
\* a detection that settles after its image was taken away stores nothing,
\* so no face list is held while no image is loaded.
C28_FacesOfLoadedImage ==
  detectedFaces => (baseImage # NoImage /\ currentImage # NoImage)

\* C29: the compositing mode of a blend stroke never carries over: when the
\* eraser restores from the loaded checkpoint, the context's mode is
\* source-over and its global alpha is 1.0.
C29_ModeNotCarried ==
  [][(SampleStep /\ tool = "eraser" /\ restoreImg.loaded)
       => (ctxOp = "source-over" /\ ctxAlpha = 255)]_vars

\* C30: the edit service is called only while the daily count is below
\* DAILY_LIMIT; the count rises by exactly one with each successful AI edit
\* and with nothing else; it never exceeds DAILY_LIMIT; and the persisted
\* count equals the count in memory.
C30_DailyLimit ==
  /\ [](dailyUsage =< DAILY_LIMIT /\ usageStored = dailyUsage)
  /\ [][/\ aiOutstanding' > aiOutstanding => dailyUsage < DAILY_LIMIT
        /\ (\E dims \in AiDims : aiEditResolved(dims)) => dailyUsage' = dailyUsage + 1
        /\ dailyUsage' # dailyUsage
             => /\ dailyUsage' = dailyUsage + 1
                /\ aiOutstanding' = aiOutstanding - 1
                /\ lastAiResult' # lastAiResult
                /\ currentImage' = lastAiResult'
        /\ (\E err \in AiErrors : aiEditRejected(err)) => dailyUsage' = dailyUsage]_vars

\* C30 witness: the edit that reaches the limit has succeeded and been
\* counted, and the next request was refused
C30_Witness ==
  /\ dailyUsage = DAILY_LIMIT
  /\ usageStored = DAILY_LIMIT
  /\ lastAiResult # NoImage
  /\ error = LimitReached
  /\ aiOutstanding = 0

====
